---- MODULE Spec2Model ----
(***************************************************************************)
(* The transaction server actions of the finance application:              *)
(* createTransaction and createTransactionFromPrompt, run as concurrent    *)
(* requests against one persistent store.  Every await of the source is a  *)
(* step of the request that makes it; the steps of different requests      *)
(* interleave freely.                                                      *)
(***************************************************************************)
EXTENDS Integers, Sequences, FiniteSets, TLC

VARIABLES
    accounts,       \* store: Account rows, by id
    transactions,   \* store: committed Transaction rows
    calls           \* the server-action invocations made so far, each with its locals

vars == <<accounts, transactions, calls>>

(***************************************************************************)
(* Bounds                                                                  *)
(***************************************************************************)
\* number of server-action invocations in one behaviour
MaxCalls == 2

(***************************************************************************)
(* JavaScript values as the code sees them                                 *)
(***************************************************************************)
Undefined == [t |-> "undefined"]
JNull == [t |-> "null"]
Num(n) == [t |-> "num", v |-> n]
Str(s) == [t |-> "str", v |-> s]
Obj(f) == [t |-> "obj", f |-> f]

\* property read `o.k`: a missing property, or any property of a primitive, is undefined
Get(o, k) == IF o.t = "obj" /\ k \in DOMAIN o.f THEN o.f[k] ELSE Undefined

\* JavaScript truthiness, as used by `!x` and `x || y`
Truthy(v) ==
    CASE v.t = "undefined" -> FALSE
      [] v.t = "null" -> FALSE
      [] v.t = "num" -> v.v # 0
      [] v.t = "str" -> Len(v.v) > 0
      [] OTHER -> TRUE

LowerChars == <<"a","b","c","d","e","f","g","h","i","j","k","l","m",
                "n","o","p","q","r","s","t","u","v","w","x","y","z">>
UpperChars == <<"A","B","C","D","E","F","G","H","I","J","K","L","M",
                "N","O","P","Q","R","S","T","U","V","W","X","Y","Z">>

\* String.prototype.toUpperCase on a string held as a sequence of characters
ToUpperCase(s) ==
    [i \in 1..Len(s) |->
        IF \E j \in 1..Len(LowerChars) : LowerChars[j] = s[i]
        THEN UpperChars[CHOOSE j \in 1..Len(LowerChars) : LowerChars[j] = s[i]]
        ELSE s[i]]

DigitChars == <<"0","1","2","3","4","5","6","7","8","9">>

RECURSIVE ParseDigits(_)
\* the number a string of decimal digits denotes
ParseDigits(s) ==
    IF Len(s) = 0 THEN 0
    ELSE ParseDigits(SubSeq(s, 1, Len(s) - 1)) * Len(DigitChars)
         + ((CHOOSE j \in 1..Len(DigitChars) : DigitChars[j] = s[Len(s)]) - 1)

\* Number(x) for the values the oracle outputs of this model carry in `amount`:
\* a number is itself, a string of digits is the number it denotes
ToNumber(v) == IF v.t = "num" THEN v.v ELSE ParseDigits(v.v)

\* new Date("YYYY-MM-DD"), a date being <<year, month (1..12), day>>
NewDate(s) ==
    <<ParseDigits(SubSeq(s, 1, 4)), ParseDigits(SubSeq(s, 6, 7)), ParseDigits(SubSeq(s, 9, 10))>>

\* new Date(): the day the request runs
Today == <<2025, 6, 15>>

NullDate == <<>>

(***************************************************************************)
(* calculateNextRecurringDate                                              *)
(***************************************************************************)
IsLeap(y) == (y % 4 = 0 /\ y % 100 # 0) \/ y % 400 = 0

DaysInMonth(y, m) ==
    IF m = 2 THEN (IF IsLeap(y) THEN 28 + 1 ELSE 28)
    ELSE IF m \in {4, 6, 9, 11} THEN 30 ELSE 31

RECURSIVE NormalizeDate(_, _, _)
\* the host Date's overflow rule: months past December and days past the end
\* of the month roll over into the following year and month
NormalizeDate(y, m, d) ==
    IF m > 12 THEN NormalizeDate(y + 1, m - 12, d)
    ELSE IF d > DaysInMonth(y, m) THEN NormalizeDate(y, m + 1, d - DaysInMonth(y, m))
    ELSE <<y, m, d>>

calculateNextRecurringDate(startDate, interval) ==
    CASE interval = "DAILY" -> NormalizeDate(startDate[1], startDate[2], startDate[3] + 1)
      [] interval = "WEEKLY" -> NormalizeDate(startDate[1], startDate[2], startDate[3] + 7)
      [] interval = "MONTHLY" -> NormalizeDate(startDate[1], startDate[2] + 1, startDate[3])
      [] interval = "YEARLY" -> NormalizeDate(startDate[1] + 1, startDate[2], startDate[3])
      [] OTHER -> startDate

(***************************************************************************)
(* The store: users (immutable here), accounts, transactions               *)
(***************************************************************************)
EXPENSE == <<"E","X","P","E","N","S","E">>
INCOME == <<"I","N","C","O","M","E">>
\* the values of the TransactionType enumeration of the store schema
TransactionType == {INCOME, EXPENSE}

\* what the store schema demands of a Transaction row on insert: type is of
\* the enumeration, category is a string
ValidTransaction(row) == row.type \in TransactionType /\ row.category.t = "str"

FOOD == <<"f","o","o","d">>
SALARY == <<"s","a","l","a","r","y">>
LUNCH == <<"l","u","n","c","h">>

\* identity-provider subject ids; NoCaller is the absent subject id
NoCaller == "none"
Callers == <<NoCaller, "clerk1", "clerk2", "clerk3">>

\* User rows; "clerk3" is signed in but has no User row
Users == {[id |-> "u1", clerkUserId |-> "clerk1"], [id |-> "u2", clerkUserId |-> "clerk2"]}

AccountIds == {"a1", "a2"}

InitAccounts ==
    [a \in AccountIds |->
        IF a = "a1"
        THEN [id |-> "a1", userId |-> "u1", balance |-> 10, isDefault |-> TRUE, updatedBy |-> {}]
        ELSE [id |-> "a2", userId |-> "u2", balance |-> 20, isDefault |-> FALSE, updatedBy |-> {}]]

NoUser == [id |-> "none"]
NoAccount == [id |-> "none"]
NoData == [accountId |-> "none"]
NoInterval == "none"
NoTx == [rows |-> {}, balances |-> {}]
Pending == [status |-> "pending"]

\* db.user.findUnique({ where: { clerkUserId } })
FindUserByClerkId(clerkUserId) ==
    IF \E u \in Users : u.clerkUserId = clerkUserId
    THEN CHOOSE u \in Users : u.clerkUserId = clerkUserId
    ELSE NoUser

\* (variant of AccountsMatching) the lookup by id alone, the owner not compared
AccountsMatchingAnyOwner(accts, id, userId) ==
    {accts[a] : a \in {b \in DOMAIN accts : accts[b].id = id}}

\* db.account.findUnique({ where: { id, userId } }): the rows that match
AccountsMatching(accts, id, userId) ==
    {accts[a] : a \in {b \in DOMAIN accts : accts[b].id = id /\ accts[b].userId = userId}}

\* db.account.findFirst({ where: { userId, isDefault: true } }): the rows that match
DefaultAccountsOf(accts, userId) ==
    {accts[a] : a \in {b \in DOMAIN accts : accts[b].userId = userId /\ accts[b].isDefault}}

(***************************************************************************)
(* Inputs                                                                  *)
(***************************************************************************)
\* the `data` argument of direct createTransaction calls
CreateInputs == <<
    [accountId |-> "a1", type |-> INCOME, amount |-> 3, category |-> Str(SALARY),
     description |-> Str(SALARY), date |-> <<2024, 1, 31>>, isRecurring |-> TRUE,
     recurringInterval |-> "MONTHLY"],
    [accountId |-> "a2", type |-> EXPENSE, amount |-> 2, category |-> Str(FOOD),
     description |-> Str(LUNCH), date |-> <<2024, 2, 29>>, isRecurring |-> TRUE,
     recurringInterval |-> NoInterval],
    [accountId |-> "a9", type |-> EXPENSE, amount |-> 1, category |-> Str(FOOD),
     description |-> Str(FOOD), date |-> <<2024, 12, 28>>, isRecurring |-> FALSE,
     recurringInterval |-> "WEEKLY"]
>>

\* Texts the oracle may return, as token sequences: a code fence (the match of
\* ```(?:json)?\n?), white space, a JSON value, or prose that is no JSON
Fence == [k |-> "fence"]
Space == [k |-> "ws"]
Prose == [k |-> "prose"]
Json(v) == [k |-> "json", v |-> v]

OracleTexts == <<
    \* 1: fenced, complete, lower-case type, with description and date
    <<Fence, Json(Obj([type |-> Str(<<"e","x","p","e","n","s","e">>), amount |-> Num(5),
                       category |-> Str(FOOD), description |-> Str(LUNCH),
                       date |-> Str(<<"2","0","2","4","-","0","3","-","0","9">>)])),
      Space, Fence>>,
    \* 2: bare, complete, mixed-case type, amount as a string of digits
    <<Space, Json(Obj([type |-> Str(<<"I","n","c","o","m","e">>), amount |-> Str(<<"4">>),
                       category |-> Str(SALARY)]))>>,
    \* 3: prose around the JSON
    <<Prose, Fence, Json(Obj([type |-> Str(EXPENSE), amount |-> Num(5), category |-> Str(FOOD)])),
      Fence>>,
    \* 4: category missing
    <<Json(Obj([type |-> Str(EXPENSE), amount |-> Num(5)]))>>,
    \* 5: amount zero
    <<Json(Obj([type |-> Str(EXPENSE), amount |-> Num(0), category |-> Str(FOOD)]))>>,
    \* 6: negative amount
    <<Json(Obj([type |-> Str(EXPENSE), amount |-> Num(-5), category |-> Str(FOOD)]))>>,
    \* 7: a type outside the enumeration
    <<Json(Obj([type |-> Str(<<"t","r","a","n","s","f","e","r">>), amount |-> Num(5),
                category |-> Str(FOOD)]))>>,
    \* 8: the JSON value null
    <<Fence, Json(JNull), Fence>>,
    \* 9: type is not a string
    <<Json(Obj([type |-> Num(1), amount |-> Num(5), category |-> Str(FOOD)]))>>,
    \* 10: empty text
    <<Fence, Fence>>
>>

(***************************************************************************)
(* Parsing the oracle's text                                               *)
(***************************************************************************)
\* text.replace(/```(?:json)?\n?/g, "")
StripFences(text) == SelectSeq(text, LAMBDA tok : tok.k # "fence")

RECURSIVE TrimLeft(_)
TrimLeft(s) == IF Len(s) > 0 /\ s[1].k = "ws" THEN TrimLeft(Tail(s)) ELSE s

RECURSIVE TrimRight(_)
TrimRight(s) ==
    IF Len(s) > 0 /\ s[Len(s)].k = "ws" THEN TrimRight(SubSeq(s, 1, Len(s) - 1)) ELSE s

\* String.prototype.trim
Trim(s) == TrimRight(TrimLeft(s))

SyntaxError == [t |-> "SyntaxError"]

\* JSON.parse: one JSON value, white space around it allowed; anything else throws
JSONParse(s) ==
    LET values == SelectSeq(s, LAMBDA tok : tok.k = "json")
    IN IF Len(values) = 1 /\ \A i \in 1..Len(s) : s[i].k \in {"json", "ws"}
       THEN values[1].v
       ELSE SyntaxError

(***************************************************************************)
(* Results and errors                                                      *)
(***************************************************************************)
Unauthorized == "Unauthorized"
TooManyRequests == "Too many requests. Please try again later."
RequestBlocked == "Request blocked"
UserNotFound == "User not found"
AccountNotFound == "Account not found"
NoDefaultAccount == "No default account found"
CouldNotParse == "Could not parse transaction details from prompt"
IncompleteDetails == "Incomplete transaction details extracted"
\* messages of errors thrown by the runtime and by the collaborators
NullPropertyRead == "Cannot read properties of null"
NotAFunction == "data.type.toUpperCase is not a function"
StoreError == "Cannot reach database server"
InvalidArgument == "Invalid value provided for argument"
OracleError == "fetch failed"

\* The reads of the store answer; its writes, inside db.$transaction, may
\* fail with StoreError, and the oracle call with OracleError.

\* amounts and balances of this model are integers, which the Decimal of the store
\* and the Number of the runtime both hold exactly: toNumber() keeps the value
DecimalToNumber(d) == d

serializeAmount(obj) == [obj EXCEPT !.amount = DecimalToNumber(obj.amount)]

Success(transaction) == [success |-> TRUE, data |-> serializeAmount(transaction)]
Failure(message) == [success |-> FALSE, error |-> message]

\* the admission-control decisions
Decisions == {"ALLOW", "RATE_LIMIT", "BOT"}
\* (variant of IsDenied) only a rate limit counts as a denial
IsDeniedOnRateLimitOnly(decision) == decision = "RATE_LIMIT"
IsDenied(decision) == decision # "ALLOW"
IsRateLimit(decision) == decision = "RATE_LIMIT"

(***************************************************************************)
(* One invocation and its locals                                           *)
(***************************************************************************)
NewCall(kind, caller, input, data, pc) ==
    [kind |-> kind,             \* the server action that was invoked
     input |-> input,           \* which of CreateInputs it was given, 0: a prompt
     caller |-> caller,         \* what auth() yields in this request
     pc |-> pc,                 \* the await the invocation stands at
     data |-> data,             \* createTransaction's argument
     text |-> 0,                \* the oracle text received (index), 0: none
     user |-> NoUser,
     defaultAccount |-> NoAccount,
     account |-> NoAccount,
     newBalance |-> 0,
     tx |-> NoTx,               \* writes made inside the open db.$transaction
     decision |-> "NONE",       \* the admission decision, once taken
     result |-> Pending,        \* the value returned
     reads |-> 0,               \* store reads made so far
     oracle |-> 0,              \* oracle calls made so far
     signals |-> {}]            \* paths revalidated

\* (variant of Caught) no catch block: the error leaves the action as an exception
Rethrown(c, message) == [c EXCEPT !.pc = "raised", !.tx = NoTx]

\* the catch block: the error becomes the returned value; an open
\* db.$transaction has rolled back
Caught(c, message) == [c EXCEPT !.pc = "done", !.result = Failure(message), !.tx = NoTx]

\* (variant of Authorized) the subject id is not looked at
AuthorizedAlways(userId) == TRUE
Authorized(userId) == userId # NoCaller

BalanceChange(data) == IF data.type = EXPENSE THEN 0 - data.amount ELSE data.amount

NewBalance(account, data) == DecimalToNumber(account.balance) + BalanceChange(data)

NextRecurringDate(data) ==
    IF data.isRecurring /\ "recurringInterval" \in DOMAIN data /\ data.recurringInterval # NoInterval
    THEN calculateNextRecurringDate(data.date, data.recurringInterval)
    ELSE NullDate

\* the row tx.transaction.create is given; the store generates its id (here
\* the invocation's number)
NewTransaction(i, c) ==
    [id |-> i, userId |-> c.user.id, nextRecurringDate |-> NextRecurringDate(c.data)] @@ c.data

\* the account rows after the balance updates of a committing transaction
ApplyUpdates(accts, balances, i) ==
    [a \in DOMAIN accts |->
        IF \E u \in balances : u.id = accts[a].id
        THEN [accts[a] EXCEPT
                !.balance = (CHOOSE u \in balances : u.id = accts[a].id).balance,
                !.updatedBy = @ \cup {i}]
        ELSE accts[a]]

\* (variant of Incomplete) the category is not checked
IncompleteWithoutCategory(data) ==
    \/ ~Truthy(Get(data, "amount"))
    \/ ~Truthy(Get(data, "type"))

Incomplete(data) ==
    \/ ~Truthy(Get(data, "amount"))
    \/ ~Truthy(Get(data, "type"))
    \/ ~Truthy(Get(data, "category"))

TransactionData(defaultAccount, data) ==
    [accountId |-> defaultAccount.id,
     type |-> ToUpperCase(Get(data, "type").v),
     amount |-> ToNumber(Get(data, "amount")),
     category |-> Get(data, "category"),
     description |-> IF Truthy(Get(data, "description"))
                     THEN Get(data, "description")
                     ELSE Get(data, "category"),
     date |-> IF Truthy(Get(data, "date")) THEN NewDate(Get(data, "date").v) ELSE Today,
     isRecurring |-> FALSE]

\* createTransactionFromPrompt from the oracle's text to the delegation
AfterOracle(c, k) ==
    LET cleanedText == Trim(StripFences(OracleTexts[k]))
        data == JSONParse(cleanedText)
        c1 == [c EXCEPT !.text = k, !.oracle = @ + 1]
    IN  IF data.t = "SyntaxError" THEN Caught(c1, CouldNotParse)
        ELSE IF data.t = "null" THEN Caught(c1, NullPropertyRead)
        ELSE IF Incomplete(data) THEN Caught(c1, IncompleteDetails)
        ELSE IF Get(data, "type").t # "str" THEN Caught(c1, NotAFunction)
        ELSE [c1 EXCEPT !.data = TransactionData(c.defaultAccount, data), !.pc = "auth"]

(***************************************************************************)
(* Actions                                                                 *)
(***************************************************************************)
Init ==
    /\ accounts = InitAccounts
    /\ transactions = {}
    /\ calls = <<>>

Set(i, c) == calls' = [calls EXCEPT ![i] = c]

Store == <<accounts, transactions>>

\* Invocations are numbered in the order of their arguments rather than of
\* their arrival: an invocation changes nothing until its first step, so a
\* late arrival is an early one whose first step comes late, and the numbering
\* of concurrent requests carries no meaning of its own.
ArgumentRank(c) ==
    (IF c.kind = "createTransaction" THEN 0 ELSE Len(Callers) * (Len(CreateInputs) + 1))
    + (CHOOSE j \in 1..Len(Callers) : Callers[j] = c.caller) * (Len(CreateInputs) + 1)
    + c.input

MayArrive(c) ==
    /\ Len(calls) < MaxCalls
    /\ Len(calls) > 0 => ArgumentRank(calls[Len(calls)]) <= ArgumentRank(c)

InvokeCreateTransaction ==
    /\ \E j \in 1..Len(Callers), k \in 1..Len(CreateInputs) :
          LET c == NewCall("createTransaction", Callers[j], k, CreateInputs[k], "auth")
          IN MayArrive(c) /\ calls' = Append(calls, c)
    /\ UNCHANGED Store

InvokeCreateTransactionFromPrompt ==
    /\ \E j \in 1..Len(Callers) :
          LET c == NewCall("createTransactionFromPrompt", Callers[j], 0, NoData, "pAuth")
          IN MayArrive(c) /\ calls' = Append(calls, c)
    /\ UNCHANGED Store

\* createTransaction: auth()
Auth(i) ==
    /\ calls[i].pc = "auth"
    /\ Set(i, IF Authorized(calls[i].caller)
              THEN [calls[i] EXCEPT !.pc = "protect"]
              ELSE Caught(calls[i], Unauthorized))
    /\ UNCHANGED Store

\* createTransaction: request(), aj.protect and the denial branches
Protect(i) ==
    /\ calls[i].pc = "protect"
    /\ \E decision \in Decisions :
          LET c == [calls[i] EXCEPT !.decision = decision]
          IN Set(i, IF IsDenied(decision)
                    THEN (IF IsRateLimit(decision)
                          THEN Caught(c, TooManyRequests)
                          ELSE Caught(c, RequestBlocked))
                    ELSE [c EXCEPT !.pc = "findUser"])
    /\ UNCHANGED Store

\* createTransaction: db.user.findUnique
FindUser(i) ==
    /\ calls[i].pc = "findUser"
    /\ LET c == [calls[i] EXCEPT !.reads = @ + 1]
           user == FindUserByClerkId(c.caller)
       IN Set(i, IF user = NoUser
                 THEN Caught(c, UserNotFound)
                 ELSE [c EXCEPT !.user = user, !.pc = "findAccount"])
    /\ UNCHANGED Store

\* createTransaction: db.account.findUnique, then the balance computation
FindAccount(i) ==
    /\ calls[i].pc = "findAccount"
    /\ LET c == [calls[i] EXCEPT !.reads = @ + 1]
           found == AccountsMatching(accounts, c.data.accountId, c.user.id)
       IN \/ /\ found = {}
             /\ Set(i, Caught(c, AccountNotFound))
          \/ \E account \in found :
                Set(i, [c EXCEPT !.account = account,
                                 !.newBalance = NewBalance(account, c.data),
                                 !.pc = "txCreate"])
    /\ UNCHANGED Store

\* inside db.$transaction: tx.transaction.create
TxCreate(i) ==
    /\ calls[i].pc = "txCreate"
    /\ LET c == calls[i]
           newTransaction == NewTransaction(i, c)
       IN \/ Set(i, Caught(c, StoreError))
          \/ Set(i, IF ValidTransaction(newTransaction)
                    THEN [c EXCEPT !.tx.rows = {newTransaction}, !.pc = "txUpdate"]
                    ELSE Caught(c, InvalidArgument))
    /\ UNCHANGED Store

\* (variant of TxUpdate) the two writes made one after the other with no
\* transaction around them: when the update fails the inserted row stays
TxUpdateOutsideTransaction(i) ==
    /\ calls[i].pc = "txUpdate"
    /\ LET c == calls[i]
       IN \/ /\ Set(i, Caught(c, StoreError))
             /\ transactions' = transactions \cup c.tx.rows
             /\ UNCHANGED accounts
          \/ /\ Set(i, [c EXCEPT !.tx.balances = {[id |-> c.data.accountId, balance |-> c.newBalance]},
                                 !.pc = "txCommit"])
             /\ UNCHANGED Store

\* inside db.$transaction: tx.account.update
TxUpdate(i) ==
    /\ calls[i].pc = "txUpdate"
    /\ LET c == calls[i]
       IN \/ Set(i, Caught(c, StoreError))
          \/ Set(i, [c EXCEPT !.tx.balances = {[id |-> c.data.accountId, balance |-> c.newBalance]},
                              !.pc = "txCommit"])
    /\ UNCHANGED Store

\* db.$transaction commits (or fails to); then revalidatePath twice and return
TxCommit(i) ==
    /\ calls[i].pc = "txCommit"
    /\ LET c == calls[i]
       IN \/ /\ Set(i, Caught(c, StoreError))
             /\ UNCHANGED Store
          \/ /\ transactions' = transactions \cup c.tx.rows
             /\ accounts' = ApplyUpdates(accounts, c.tx.balances, i)
             /\ \E transaction \in c.tx.rows :
                   Set(i, [c EXCEPT !.tx = NoTx,
                                    !.signals = {<<"/dashboard">>, <<"/account", transaction.accountId>>},
                                    !.result = Success(transaction),
                                    !.pc = "done"])

\* createTransactionFromPrompt: auth()
PromptAuth(i) ==
    /\ calls[i].pc = "pAuth"
    /\ Set(i, IF Authorized(calls[i].caller)
              THEN [calls[i] EXCEPT !.pc = "pFindUser"]
              ELSE Caught(calls[i], Unauthorized))
    /\ UNCHANGED Store

\* createTransactionFromPrompt: db.user.findUnique
PromptFindUser(i) ==
    /\ calls[i].pc = "pFindUser"
    /\ LET c == [calls[i] EXCEPT !.reads = @ + 1]
           user == FindUserByClerkId(c.caller)
       IN Set(i, IF user = NoUser
                 THEN Caught(c, UserNotFound)
                 ELSE [c EXCEPT !.user = user, !.pc = "pFindDefault"])
    /\ UNCHANGED Store

\* createTransactionFromPrompt: db.account.findFirst
PromptFindDefault(i) ==
    /\ calls[i].pc = "pFindDefault"
    /\ LET c == [calls[i] EXCEPT !.reads = @ + 1]
           found == DefaultAccountsOf(accounts, c.user.id)
       IN \/ /\ found = {}
             /\ Set(i, Caught(c, NoDefaultAccount))
          \/ \E defaultAccount \in found :
                Set(i, [c EXCEPT !.defaultAccount = defaultAccount, !.pc = "pGenerate"])
    /\ UNCHANGED Store

\* createTransactionFromPrompt: genAI.models.generateContent, the parse, the
\* validation, and the call of createTransaction
PromptGenerate(i) ==
    /\ calls[i].pc = "pGenerate"
    /\ \/ Set(i, Caught([calls[i] EXCEPT !.oracle = @ + 1], OracleError))
       \/ \E k \in 1..Len(OracleTexts) : Set(i, AfterOracle(calls[i], k))
    /\ UNCHANGED Store

\* each step, taken by any invocation that stands at it
AuthStep == \E i \in 1..Len(calls) : Auth(i)
ProtectStep == \E i \in 1..Len(calls) : Protect(i)
FindUserStep == \E i \in 1..Len(calls) : FindUser(i)
FindAccountStep == \E i \in 1..Len(calls) : FindAccount(i)
TxCreateStep == \E i \in 1..Len(calls) : TxCreate(i)
TxUpdateStep == \E i \in 1..Len(calls) : TxUpdate(i)
TxCommitStep == \E i \in 1..Len(calls) : TxCommit(i)
PromptAuthStep == \E i \in 1..Len(calls) : PromptAuth(i)
PromptFindUserStep == \E i \in 1..Len(calls) : PromptFindUser(i)
PromptFindDefaultStep == \E i \in 1..Len(calls) : PromptFindDefault(i)
PromptGenerateStep == \E i \in 1..Len(calls) : PromptGenerate(i)

Next ==
    \/ InvokeCreateTransaction
    \/ InvokeCreateTransactionFromPrompt
    \/ AuthStep
    \/ ProtectStep
    \/ FindUserStep
    \/ FindAccountStep
    \/ TxCreateStep
    \/ TxUpdateStep
    \/ TxCommitStep
    \/ PromptAuthStep
    \/ PromptFindUserStep
    \/ PromptFindDefaultStep
    \/ PromptGenerateStep

Spec == Init /\ [][Next]_vars

(***************************************************************************)
(* Vocabulary of the properties                                            *)
(***************************************************************************)
CallIds == 1..Len(calls)
IsDone(c) == c.pc = "done"
Succeeded(c) == c.pc = "done" /\ c.result.success
Failed(c) == c.pc = "done" /\ ~c.result.success
FailedWith(c, message) == c.pc = "done" /\ c.result = Failure(message)
InTransaction(c) == c.pc \in {"txCreate", "txUpdate", "txCommit"}

\* what invocation i has made visible in the store
RowsOf(i) == {row \in transactions : row.id = i}
BalanceWrittenBy(i) == \E a \in DOMAIN accounts : i \in accounts[a].updatedBy
Untouched(i) == RowsOf(i) = {} /\ ~BalanceWrittenBy(i)

\* the User row of the caller, and whether the account the call names is theirs
CallerUser(c) == FindUserByClerkId(c.caller)
Owns(c) ==
    \E a \in DOMAIN accounts :
        accounts[a].id = c.data.accountId /\ accounts[a].userId = CallerUser(c).id

SignedAmount(row) == IF row.type = EXPENSE THEN 0 - row.amount ELSE row.amount

RECURSIVE SumSigned(_)
SumSigned(rows) ==
    IF rows = {} THEN 0
    ELSE LET row == CHOOSE r \in rows : TRUE
         IN SignedAmount(row) + SumSigned(rows \ {row})

(***************************************************************************)
(* C1: lost updates                                                        *)
(***************************************************************************)
\* C1: once every invocation has returned, the balance of each account is its
\* balance before the invocations plus the signed amounts (EXPENSE negative,
\* INCOME positive) of the transactions the successful invocations were given
\* for it, whatever the interleaving of their steps.
C1_NoLostUpdate ==
    (\A i \in CallIds : IsDone(calls[i])) =>
        \A a \in DOMAIN accounts :
            accounts[a].balance =
                InitAccounts[a].balance
                + SumSigned({[id |-> i, type |-> calls[i].data.type, amount |-> calls[i].data.amount] :
                             i \in {j \in CallIds : Succeeded(calls[j]) /\ calls[j].data.accountId = a}})

(***************************************************************************)
(* C2: the insert and the balance update are one atomic step               *)
(***************************************************************************)
\* C2: in every reachable store state the row of an invocation is persisted
\* exactly when its balance write is, and on the account the row names; the
\* writes of an open transaction are not in the store; an invocation that
\* returned a failure has persisted neither write.
C2_AtomicCommit ==
    \A i \in CallIds :
        /\ RowsOf(i) # {} <=> BalanceWrittenBy(i)
        /\ \A row \in RowsOf(i) : i \in accounts[row.accountId].updatedBy
        /\ Cardinality(RowsOf(i)) <= 1
        /\ InTransaction(calls[i]) => Untouched(i)
        /\ Failed(calls[i]) => Untouched(i)
        /\ Succeeded(calls[i]) => ~Untouched(i)

\* one invocation has committed both writes, another failed inside its
\* transaction and left nothing
C2_Witness ==
    \E i, j \in CallIds :
        /\ Succeeded(calls[i]) /\ RowsOf(i) # {} /\ BalanceWrittenBy(i)
        /\ FailedWith(calls[j], StoreError) /\ calls[j].account # NoAccount /\ Untouched(j)

(***************************************************************************)
(* C3: the ownership check                                                 *)
(***************************************************************************)
\* C3 as stated: every createTransaction call of a user on an account that does
\* not exist or is not theirs returns the failure "Account not found" and
\* leaves the store unchanged.
C3_AlwaysAccountNotFound ==
    \A i \in CallIds :
        (/\ calls[i].kind = "createTransaction"
         /\ CallerUser(calls[i]) # NoUser
         /\ ~Owns(calls[i])
         /\ IsDone(calls[i]))
        => FailedWith(calls[i], AccountNotFound) /\ Untouched(i)

\* C3 as amended: a createTransaction call on an account that does not exist or
\* is not the caller's never writes and returns a failure; the failure is
\* "Account not found" when the call was admitted, found the caller's User row
\* and completed the account lookup, and the failure of the earlier step
\* otherwise.  Every row and every balance write in the store comes from a
\* request of the account's owner.
C3_NotOwnedNeverWrites ==
    /\ \A i \in CallIds :
          (calls[i].kind = "createTransaction" /\ ~Owns(calls[i])) =>
             /\ Untouched(i)
             /\ ~InTransaction(calls[i])
             /\ calls[i].tx = NoTx
             /\ IsDone(calls[i]) => Failed(calls[i])
             /\ IsDone(calls[i]) =>
                   IF calls[i].user # NoUser /\ calls[i].reads = 2
                   THEN FailedWith(calls[i], AccountNotFound)
                   ELSE \E m \in {Unauthorized, TooManyRequests, RequestBlocked, UserNotFound} :
                           FailedWith(calls[i], m)
    /\ \A row \in transactions :
          /\ row.accountId \in DOMAIN accounts
          /\ accounts[row.accountId].userId = row.userId
          /\ CallerUser(calls[row.id]).id = row.userId
    /\ \A a \in DOMAIN accounts : \A i \in accounts[a].updatedBy :
          CallerUser(calls[i]).id = accounts[a].userId

\* a user named an existing account of another user and got "Account not
\* found"; another named an account that does not exist
C3_Witness ==
    \E i, j \in CallIds :
        /\ calls[i].kind = "createTransaction" /\ calls[j].kind = "createTransaction"
        /\ CallerUser(calls[i]) # NoUser /\ CallerUser(calls[j]) # NoUser
        /\ calls[i].data.accountId \in DOMAIN accounts /\ ~Owns(calls[i])
        /\ calls[j].data.accountId \notin DOMAIN accounts
        /\ FailedWith(calls[i], AccountNotFound) /\ FailedWith(calls[j], AccountNotFound)
        /\ Untouched(i) /\ Untouched(j)

(***************************************************************************)
(* C4: a denied request never writes                                       *)
(***************************************************************************)
\* C4: a request whose admission decision is a denial has returned a failure,
\* "Too many requests. Please try again later." for a rate limit and "Request
\* blocked" for any other reason, has no write in the store and none pending,
\* and has signalled no stale view; whichever action it entered through.
C4_DeniedNeverWrites ==
    \A i \in CallIds :
        calls[i].decision \notin {"NONE", "ALLOW"} =>
            /\ FailedWith(calls[i], IF calls[i].decision = "RATE_LIMIT"
                                    THEN TooManyRequests ELSE RequestBlocked)
            /\ Untouched(i)
            /\ calls[i].tx = NoTx
            /\ calls[i].account = NoAccount
            /\ calls[i].signals = {}

\* a direct call was rate limited and a prompt call was blocked
C4_Witness ==
    \E i, j \in CallIds :
        /\ calls[i].kind = "createTransaction" /\ calls[i].decision = "RATE_LIMIT"
        /\ FailedWith(calls[i], TooManyRequests)
        /\ calls[j].kind = "createTransactionFromPrompt" /\ calls[j].decision = "BOT"
        /\ FailedWith(calls[j], RequestBlocked)

(***************************************************************************)
(* C5: no subject id                                                       *)
(***************************************************************************)
\* C5: a request without a caller subject id fails with "Unauthorized" at its
\* first step: it stands at that step or has returned that failure, and it has
\* made no admission check, no store read or write, no oracle call and no
\* cache-invalidation signal.
C5_UnauthorizedFirst ==
    \A i \in CallIds :
        calls[i].caller = NoCaller =>
            /\ calls[i].pc \in {"auth", "pAuth", "done"}
            /\ IsDone(calls[i]) => FailedWith(calls[i], Unauthorized)
            /\ calls[i].decision = "NONE"
            /\ calls[i].reads = 0
            /\ calls[i].oracle = 0
            /\ calls[i].signals = {}
            /\ calls[i].tx = NoTx
            /\ Untouched(i)

\* both actions have turned away a request without subject id
C5_Witness ==
    \E i, j \in CallIds :
        /\ calls[i].kind = "createTransaction" /\ calls[j].kind = "createTransactionFromPrompt"
        /\ calls[i].caller = NoCaller /\ calls[j].caller = NoCaller
        /\ FailedWith(calls[i], Unauthorized) /\ FailedWith(calls[j], Unauthorized)

(***************************************************************************)
(* C6: parse failures and incomplete extractions                           *)
(***************************************************************************)
\* what each oracle text parses to
ParsedTexts == [k \in 1..Len(OracleTexts) |-> JSONParse(Trim(StripFences(OracleTexts[k])))]
ParsedText(k) == ParsedTexts[k]
Has(o, k) == o.t = "obj" /\ k \in DOMAIN o.f
\* the text parses and the object carries amount, type and category
ParsesComplete(k) ==
    Has(ParsedText(k), "amount") /\ Has(ParsedText(k), "type") /\ Has(ParsedText(k), "category")

\* C6: a prompt call has a write in the store only if the oracle text parsed
\* as JSON into an object with amount, type and category; on any other text it
\* has returned a failure (the parse failure for non-JSON text, the incomplete
\* extraction for an object that lacks a field), was never handed to
\* createTransaction, and has no write in the store or pending.
C6_OnlyCompleteExtractionsPersist ==
    \A i \in CallIds :
        calls[i].kind = "createTransactionFromPrompt" =>
            /\ ~Untouched(i) => calls[i].text # 0 /\ ParsesComplete(calls[i].text)
            /\ (calls[i].text # 0 /\ ~ParsesComplete(calls[i].text)) =>
                  /\ Failed(calls[i])
                  /\ calls[i].data = NoData
                  /\ calls[i].decision = "NONE"
                  /\ calls[i].tx = NoTx
                  /\ Untouched(i)
                  /\ ParsedText(calls[i].text).t = "SyntaxError" => FailedWith(calls[i], CouldNotParse)
                  /\ ParsedText(calls[i].text).t = "obj" => FailedWith(calls[i], IncompleteDetails)

\* one prompt call got prose for an answer, another an object without a category
C6_Witness ==
    \E i, j \in CallIds :
        /\ calls[i].kind = "createTransactionFromPrompt" /\ calls[j].kind = "createTransactionFromPrompt"
        /\ calls[i].text # 0 /\ calls[j].text # 0
        /\ \E n \in 1..Len(OracleTexts[calls[i].text]) : OracleTexts[calls[i].text][n].k = "prose"
        /\ FailedWith(calls[i], CouldNotParse)
        /\ Has(ParsedText(calls[j].text), "amount") /\ ~Has(ParsedText(calls[j].text), "category")
        /\ FailedWith(calls[j], IncompleteDetails)
        /\ transactions = {}

(***************************************************************************)
(* C7: what a prompt call persists                                         *)
(***************************************************************************)
\* the oracle text is an object whose type names a TransactionType in any
\* letter case, whose amount is a non-zero number and whose category is a string
CompleteValid(k) ==
    /\ ParsesComplete(k)
    /\ ~Incomplete(ParsedText(k))
    /\ ParsedText(k).f.type.t = "str"
    /\ ToUpperCase(ParsedText(k).f.type.v) \in TransactionType
    /\ ParsedText(k).f.category.t = "str"

\* C7: a prompt call of an authenticated, admitted caller with a default
\* account, given a complete object {type t, amount a, category c} by the
\* oracle, succeeds (the store and the oracle not failing); the commit of a
\* prompt call adds exactly one row, of type t in upper case, amount a, not
\* recurring, without next recurring date, on an account of the caller that is
\* marked default, changes that balance by -a for EXPENSE and +a otherwise and
\* leaves every other account alone; a caller without default account gets
\* "No default account found" and nothing is persisted.
C7_PromptPersistsOne ==
    [][\A i \in CallIds :
          (calls[i].kind = "createTransactionFromPrompt" /\ calls[i].caller # NoCaller) =>
             /\ (/\ IsDone(calls'[i])
                 /\ calls'[i].decision = "ALLOW"
                 /\ calls'[i].text # 0
                 /\ CompleteValid(calls'[i].text)
                 /\ ~FailedWith(calls'[i], StoreError))
                => Succeeded(calls'[i])
             /\ (calls[i].pc = "txCommit" /\ Succeeded(calls'[i])) =>
                   LET o == ParsedText(calls[i].text).f
                       a == calls[i].data.accountId
                   IN \E row \in transactions' :
                         /\ row.id = i
                         /\ row \notin transactions
                         /\ transactions' = transactions \cup {row}
                         /\ row.accountId = a
                         /\ row.type = ToUpperCase(o.type.v)
                         /\ row.amount = ToNumber(o.amount)
                         /\ ~row.isRecurring
                         /\ row.nextRecurringDate = NullDate
                         /\ accounts[a].userId = CallerUser(calls[i]).id
                         /\ accounts[a].isDefault
                         /\ accounts'[a].balance =
                               accounts[a].balance
                               + (IF row.type = EXPENSE THEN 0 - row.amount ELSE row.amount)
                         /\ \A b \in DOMAIN accounts \ {a} : accounts'[b] = accounts[b]
             /\ (/\ CallerUser(calls[i]) # NoUser
                 /\ DefaultAccountsOf(accounts, CallerUser(calls[i]).id) = {}
                 /\ calls[i].pc = "pFindDefault"
                 /\ IsDone(calls'[i]))
                => FailedWith(calls'[i], NoDefaultAccount) /\ UNCHANGED Store
      ]_vars

(***************************************************************************)
(* C8: every invocation returns a result value                             *)
(***************************************************************************)
Messages ==
    {Unauthorized, TooManyRequests, RequestBlocked, UserNotFound, AccountNotFound,
     NoDefaultAccount, CouldNotParse, IncompleteDetails, NullPropertyRead, NotAFunction,
     StoreError, InvalidArgument, OracleError}

StepOf(i) ==
    \/ Auth(i) \/ Protect(i) \/ FindUser(i) \/ FindAccount(i)
    \/ TxCreate(i) \/ TxUpdate(i) \/ TxCommit(i)
    \/ PromptAuth(i) \/ PromptFindUser(i) \/ PromptFindDefault(i) \/ PromptGenerate(i)

\* C8: no invocation ends by raising; one that has not returned yet can take
\* its next step; one that has returned carries {success: true, data} or
\* {success: false, error: message}, whatever step failed; success is returned
\* only with the row and the balance update both committed.
C8_AlwaysAResult ==
    \A i \in CallIds :
        /\ calls[i].pc # "raised"
        /\ ~IsDone(calls[i]) => calls[i].result = Pending /\ ENABLED StepOf(i)
        /\ IsDone(calls[i]) =>
              \/ /\ DOMAIN calls[i].result = {"success", "error"}
                 /\ calls[i].result.success = FALSE
                 /\ calls[i].result.error \in Messages
              \/ /\ DOMAIN calls[i].result = {"success", "data"}
                 /\ calls[i].result.success = TRUE
                 /\ calls[i].result.data \in RowsOf(i)
                 /\ i \in accounts[calls[i].result.data.accountId].updatedBy

\* a prompt call succeeded; another was turned away by the createTransaction
\* it delegated to, and returned that failure as its own
C8_Witness ==
    \E i, j \in CallIds :
        /\ calls[i].kind = "createTransactionFromPrompt" /\ Succeeded(calls[i])
        /\ calls[j].kind = "createTransactionFromPrompt" /\ calls[j].data # NoData
        /\ Failed(calls[j]) /\ calls[j].result.error \in {TooManyRequests, RequestBlocked, StoreError}

(***************************************************************************)
(* C9: the admission check comes first                                     *)
(***************************************************************************)
\* C9: no store read, store write or oracle call of a request precedes its
\* admission decision: a request that has made one has its decision.
C9_AdmissionBeforeAccess ==
    \A i \in CallIds :
        (\/ calls[i].reads > 0
         \/ calls[i].oracle > 0
         \/ calls[i].tx # NoTx
         \/ ~Untouched(i))
        => calls[i].decision # "NONE"

(***************************************************************************)
(* C10: rows made from oracle output satisfy the data model                *)
(***************************************************************************)
\* C10: every row persisted through createTransactionFromPrompt has a
\* non-negative amount and a type that is INCOME or EXPENSE.
C10_PromptRowsValid ==
    \A row \in transactions :
        calls[row.id].kind = "createTransactionFromPrompt" =>
            row.amount >= 0 /\ row.type \in TransactionType

====
